---- MODULE Spec2Model ----
(***************************************************************************)
(* QubeDB cluster core: the per-shard ReplicationManager                   *)
(* (qubedb-core/src/cluster/replication.rs), the StorageEngine map it is   *)
(* specified to feed (qubedb-core/src/storage.rs), the ShardManager        *)
(* (qubedb-core/src/cluster/sharding.rs) and the ClusterManager            *)
(* (qubedb-core/src/cluster/mod.rs).                                       *)
(*                                                                         *)
(* A Rust Vec is a TLA+ sequence: the element at Rust position i           *)
(* (0-based) is log[i + 1].  A HashMap is a function whose DOMAIN is the   *)
(* set of keys present.                   *)
(***************************************************************************)
EXTENDS Integers, Sequences, FiniteSets, TLC

VARIABLES
    log,            \* ReplicationManager.log: Vec<LogEntry>
    commit_index,   \* ReplicationManager.commit_index: u64
    last_applied,   \* ReplicationManager.last_applied: u64
    next_index,     \* ReplicationManager.next_index: HashMap<String, u64>
    match_index,    \* ReplicationManager.match_index: HashMap<String, u64>
    applied,        \* history: the entries handed to apply_entry, in call order
    data,           \* StorageEngine.data: HashMap<String, Vec<u8>>
    strategy,       \* ShardManager.strategy: ShardingStrategy
    shard_count,    \* ShardManager.shard_count: u32
    replication_factor, \* ShardManager.replication_factor: usize
    shards,         \* ShardManager.shards: HashMap<u32, ShardInfo>
    config,         \* ClusterManager.config: ClusterConfig
    peers,          \* ClusterManager.peers: HashMap<String, Peer>
    cluster_shards, \* ClusterManager.shards: HashMap<u32, Shard>
    current_role,   \* ClusterManager.current_role: NodeRole
    leader_id,      \* ClusterManager.leader_id: Option<String>
    term,           \* ClusterManager.term: u64
    written,        \* history: the payload last put under each identity
    returned,       \* the QubeResult the last StorageEngine or index call returned
    indexes,        \* IndexManager.indexes: HashMap<String, Index>
    vector_index,   \* VectorIndex {name, dimensions}
    btree_data      \* BTreeIndex.data: HashMap<Vec<Value>, Vec<u8>>

replVars == <<log, commit_index, last_applied, next_index, match_index, applied, data>>
shardVars == <<strategy, shard_count, replication_factor, shards>>
clusterVars == <<config, peers, cluster_shards, current_role, leader_id, term>>
logVars == <<log, commit_index, last_applied, next_index, match_index, applied>>
indexVars == <<indexes, vector_index, btree_data>>
coreVars == <<written, returned, indexes, vector_index, btree_data>>

vars == <<log, commit_index, last_applied, next_index, match_index, applied, data,
          strategy, shard_count, replication_factor, shards,
          config, peers, cluster_shards, current_role, leader_id, term,
          written, returned, indexes, vector_index, btree_data>>

\* Option<T>: None is the empty sequence, Some(x) the one-element sequence.
None == <<>>
Some(x) == <<x>>

(***************************************************************************)
(* Bounds of the model and the inputs the operations are called with.      *)
(***************************************************************************)
MaxLog == 2         \* append_entry is called while the log is shorter
MaxIndex == 1       \* u64 index arguments are drawn from 0..MaxIndex

Followers == {"f1", "f2", "f3"}   \* follower ids passed by the callers
NumReplicas == Cardinality(Followers) + 1   \* the leader and its followers
Terms == {1, 2}
Indices == 0..MaxIndex

\* ReplicationCommand: apply_entry treats its five variants alike (it prints
\* each), so the Insert stands for them in the log.
Commands ==
    { [op |-> "Insert", table |-> "users", key |-> "k1", row |-> "r1"] }

\* LogEntry {index, term, command}; timestamp is never read and is left out.
\* append_entry stores the index its caller wrote into the entry.  For a log
\* of length n the callers write n (numbering from 0, the position get_entry
\* reads) or n + 1 (numbering from 1); get_last_log_index() + 1, which is 1
\* for the empty log and for the log of one entry, is among them.
LogEntry(n) == { [index |-> i, term |-> t, command |-> c] :
                   i \in {n, n + 1}, t \in Terms, c \in Commands }

\* QubeResult<T>: Ok of a value of the named type, or Err of a QubeError
\* variant with its message.
Ok(type, value) == [tag |-> "Ok", type |-> type, value |-> value]
Err(variant, message) == [tag |-> "Err", type |-> variant, value |-> message]
Unit == Ok("unit", "()")
NoCall == [tag |-> "None", type |-> "", value |-> ""]

(***************************************************************************)
(* StorageEngine (read side; the ReplicationManager holds no reference to  *)
(* a StorageEngine, so none of its operations reaches data).               *)
(***************************************************************************)
db_key(table, key) == table \o ":" \o key

serialize(row) == <<"json", row>>
deserialize(bytes) == bytes[2]

\* QubeError::Serialization, what a read returns for bytes it cannot decode.
SerializationError == <<"Err", "Serialization">>

\* serde_json::from_slice decodes what serde_json::to_vec wrote and fails on
\* the bytes of bincode (a u64 length first, never the start of a JSON map).
get_row(table, key) ==
    IF db_key(table, key) \in DOMAIN data
    THEN IF data[db_key(table, key)][1] = "json"
         THEN Some(deserialize(data[db_key(table, key)]))
         ELSE SerializationError
    ELSE None

\* StorageEngine::new: the empty map, before any call.
StorageEngine_new ==
    /\ data = <<>>
    /\ written = <<>>
    /\ returned = NoCall

(***************************************************************************)
(* ReplicationManager                                                      *)
(***************************************************************************)
\* ReplicationManager::new
ReplicationManager_new ==
    /\ log = <<>>
    /\ commit_index = 0
    /\ last_applied = 0
    /\ next_index = <<>>
    /\ match_index = <<>>
    /\ applied = <<>>

\* HashMap::insert
MapInsert(m, k, v) == [x \in DOMAIN m \cup {k} |-> IF x = k THEN v ELSE m[x]]

\* A receiver that resolves a term conflict by overwriting its last entry.
append_entry_truncating(entry) ==
    /\ log' = IF log # <<>> /\ log[Len(log)].term # entry.term
              THEN Append(SubSeq(log, 1, Len(log) - 1), entry)
              ELSE Append(log, entry)
    /\ UNCHANGED <<commit_index, last_applied, next_index, match_index, applied, data>>

append_entry(entry) ==
    /\ log' = Append(log, entry)
    /\ UNCHANGED <<commit_index, last_applied, next_index, match_index, applied, data>>

get_entry(index) == IF index < Len(log) THEN Some(log[index + 1]) ELSE None

get_last_log_index == IF log = <<>> THEN 0 ELSE Len(log) - 1

get_last_log_term == IF log = <<>> THEN 0 ELSE log[Len(log)].term

\* A manager that takes the index it is given as its commit index.
commit_to_index_assigning(index) ==
    /\ commit_index' = index
    /\ UNCHANGED <<log, last_applied, next_index, match_index, applied, data>>

commit_to_index(index) ==
    /\ commit_index' = IF index > commit_index THEN index ELSE commit_index
    /\ UNCHANGED <<log, last_applied, next_index, match_index, applied, data>>

\* apply_entry prints the command and returns Ok: its only trace is the call.
apply_entry(hist, entry) == Append(hist, entry)

\* The while loop of apply_committed_entries, from last_applied = la.
RECURSIVE ApplyLoop(_, _)
ApplyLoop(la, hist) ==
    IF la < commit_index
    THEN ApplyLoop(la + 1,
                   IF get_entry(la + 1) # None
                   THEN apply_entry(hist, get_entry(la + 1)[1])
                   ELSE hist)
    ELSE [last_applied |-> la, applied |-> hist]

apply_committed_entries ==
    /\ last_applied' = ApplyLoop(last_applied, applied).last_applied
    /\ applied' = ApplyLoop(last_applied, applied).applied
    /\ UNCHANGED <<log, commit_index, next_index, match_index, data>>

\* replicate_to_follower reads next_index and the last log index and prints.
replicate_to_follower(follower_id) ==
    LET next_idx == IF follower_id \in DOMAIN next_index
                    THEN next_index[follower_id] ELSE 0
        last_log_idx == get_last_log_index
    IN  /\ (next_idx <= last_log_idx) \in BOOLEAN
        /\ UNCHANGED vars

replicate_to_followers(followers) ==
    /\ \A f \in followers : replicate_to_follower(f)
    /\ UNCHANGED vars

\* The sorted Vec of match_index.values(): position i (0-based) holds the
\* value with exactly i values before it in ascending order.
SortedValues(m) ==
    LET n == Cardinality(DOMAIN m)
        Before(k) == Cardinality({x \in DOMAIN m : m[x] < m[k]})
        UpTo(k) == Cardinality({x \in DOMAIN m : m[x] <= m[k]})
    IN  [i \in 1..n |->
            LET k == CHOOSE k \in DOMAIN m : Before(k) < i /\ i <= UpTo(k)
            IN  m[k]]

\* update_commit_index, as the value commit_index takes for match indices m.
update_commit_index(m) ==
    LET indices == SortedValues(m)
    IN  IF Len(indices) # 0
        THEN LET median_idx == Len(indices) \div 2
                 new_commit_index == indices[median_idx + 1]
             IN  IF new_commit_index > commit_index
                 THEN new_commit_index
                 ELSE commit_index
        ELSE commit_index

\* A leader that retries from the acknowledged index itself.
handle_append_entries_response_resending(follower_id, success, m) ==
    IF success
    THEN /\ match_index' = MapInsert(match_index, follower_id, m)
         /\ next_index' = MapInsert(next_index, follower_id, m)
         /\ commit_index' = update_commit_index(match_index')
         /\ UNCHANGED <<log, last_applied, applied, data>>
    ELSE /\ next_index' =
                IF follower_id \in DOMAIN next_index /\ next_index[follower_id] > 0
                THEN MapInsert(next_index, follower_id, next_index[follower_id] - 1)
                ELSE next_index
         /\ UNCHANGED <<log, commit_index, last_applied, match_index, applied, data>>

\* A leader that backs every follower off on one follower's failure.
handle_append_entries_response_backing_all(follower_id, success, m) ==
    IF success
    THEN /\ match_index' = MapInsert(match_index, follower_id, m)
         /\ next_index' = MapInsert(next_index, follower_id, m + 1)
         /\ commit_index' = update_commit_index(match_index')
         /\ UNCHANGED <<log, last_applied, applied, data>>
    ELSE /\ next_index' =
                [f \in DOMAIN next_index |->
                    IF next_index[f] > 0 THEN next_index[f] - 1 ELSE next_index[f]]
         /\ UNCHANGED <<log, commit_index, last_applied, match_index, applied, data>>

handle_append_entries_response(follower_id, success, m) ==
    IF success
    THEN /\ match_index' = MapInsert(match_index, follower_id, m)
         /\ next_index' = MapInsert(next_index, follower_id, m + 1)
         /\ commit_index' = update_commit_index(match_index')
         /\ UNCHANGED <<log, last_applied, applied, data>>
    ELSE /\ next_index' =
                IF follower_id \in DOMAIN next_index /\ next_index[follower_id] > 0
                THEN MapInsert(next_index, follower_id, next_index[follower_id] - 1)
                ELSE next_index
         /\ UNCHANGED <<log, commit_index, last_applied, match_index, applied, data>>

\* The calls on the ReplicationManager; they reach no other component.
AppendEntry ==
    /\ \E e \in LogEntry(Len(log)) : Len(log) < MaxLog /\ append_entry(e)
    /\ UNCHANGED <<shardVars, clusterVars, coreVars>>
CommitToIndex ==
    /\ \E i \in Indices : commit_to_index(i)
    /\ UNCHANGED <<shardVars, clusterVars, coreVars>>
ApplyCommitted ==
    /\ apply_committed_entries
    /\ UNCHANGED <<shardVars, clusterVars, coreVars>>
Replicate == replicate_to_followers(Followers)
HandleResponse ==
    /\ \E f \in Followers, s \in BOOLEAN, m \in Indices :
            handle_append_entries_response(f, s, m)
    /\ UNCHANGED <<shardVars, clusterVars, coreVars>>

(***************************************************************************)
(* ShardManager                                                            *)
(***************************************************************************)
HashBits == 6       \* width the model keeps of the u64 hash (and of u64::MAX)
MaxShards == 3      \* shard_count is drawn from 1..MaxShards
MaxRF == 2          \* replication_factor is drawn from 0..MaxRF
MaxKey == 15        \* the callers' keys are numbered 0..MaxKey

U64_MAX == 2^HashBits - 1
U32Bits == HashBits \div 2      \* a u32 is half as wide as a u64
U32_MAX == 2^U32Bits - 1

Strategies == {"Hash", "Range", "Consistent", "Directory"}
Tables == {"users"}
Keys == 0..MaxKey                \* the callers' keys, numbered
Nodes == {"f1", "f2"}           \* node ids the callers pass
NodeLists == UNION { [1..k -> Nodes] : k \in 0..Cardinality(Nodes) }

\* format!("{:0Wx}", v): W hex digits, most significant first, as the
\* sequence of their values; W is the digit count of the integer's width.
HexWidth(bits) == (bits + 3) \div 4
ToHex(v, w) == [i \in 1..w |-> (v \div (16 ^ (w - i))) % 16]
\* format!("shard_{}", n), as the sequence of its two pieces.
ShardName(n) == <<"shard_", n>>

calculate_range_start(st, n, shard_id) ==
    CASE st = "Hash" ->
            LET range_size == U64_MAX \div n
            IN  ToHex(shard_id * range_size, HexWidth(HashBits))
      [] st = "Range" ->
            ToHex(shard_id * (U32_MAX \div n), HexWidth(U32Bits))
      [] OTHER -> ShardName(shard_id)

calculate_range_end(st, n, shard_id) ==
    CASE st = "Hash" ->
            LET range_size == U64_MAX \div n
            IN  ToHex((shard_id + 1) * range_size - 1, HexWidth(HashBits))
      [] st = "Range" ->
            ToHex((shard_id + 1) * (U32_MAX \div n) - 1, HexWidth(U32Bits))
      [] OTHER -> ShardName(shard_id + 1)

\* A constructor that numbers the shards from 1.
initialize_shards_from_one(st, n) ==
    [i \in 1..n |->
        [id |-> i,
         range_start |-> calculate_range_start(st, n, i),
         range_end |-> calculate_range_end(st, n, i),
         nodes |-> <<>>, leader |-> None, status |-> "Active",
         size_bytes |-> 0, record_count |-> 0]]

initialize_shards(st, n) ==
    [i \in 0..(n - 1) |->
        [id |-> i,
         range_start |-> calculate_range_start(st, n, i),
         range_end |-> calculate_range_end(st, n, i),
         nodes |-> <<>>, leader |-> None, status |-> "Active",
         size_bytes |-> 0, record_count |-> 0]]

\* ShardManager::new
ShardManager_new(st, n, rf) ==
    /\ strategy = st
    /\ shard_count = n
    /\ replication_factor = rf
    /\ shards = initialize_shards(st, n)

\* DefaultHasher::new() is SipHash under fixed keys: one fixed function of
\* the key per build.  It is modelled by a fixed scrambling of the key
\* numbers over the hash values (37 is odd: different keys below 2^HashBits
\* get different hashes, spread over the whole width).
hash_key(key) == (key * 37 + 11) % (2 ^ HashBits)

consistent_hash(n, hash) == hash % n

\* Routing that counts only the shards that have nodes assigned.
calculate_shard_id_hosted(st, n, hash) ==
    LET hosted == Cardinality({s \in DOMAIN shards : shards[s].nodes # <<>>})
    IN  hash % (IF hosted = 0 THEN n ELSE hosted)

calculate_shard_id(st, n, hash) ==
    CASE st = "Hash" -> hash % n
      [] st = "Consistent" -> consistent_hash(n, hash)
      [] OTHER -> hash % n

get_shard_for_key(table, key) ==
    LET hash == hash_key(key)
        shard_id == calculate_shard_id(strategy, shard_count, hash)
    IN  [table |-> table, key |-> key, hash |-> hash, shard_id |-> shard_id]

\* Vec::first().cloned()
First(v) == IF v = <<>> THEN None ELSE Some(v[1])

\* The replicas the round-robin loop collects for one shard.
RoundRobin(shard_id, nodes) ==
    [i \in 1..replication_factor |->
        nodes[((shard_id + (i - 1)) % Len(nodes)) + 1]]

\* With an empty node list and a positive replication_factor the first
\* `% nodes.len()` panics before any shard is written: the call does not
\* return, and the action is the call that returns.
assign_nodes_to_shards(nodes) ==
    /\ nodes # <<>> \/ replication_factor = 0
    /\ shards' = [s \in DOMAIN shards |->
                    [shards[s] EXCEPT !.nodes = RoundRobin(s, nodes),
                                      !.leader = First(RoundRobin(s, nodes))]]
    /\ UNCHANGED <<strategy, shard_count, replication_factor>>

get_shard(shard_id) ==
    IF shard_id \in DOMAIN shards THEN Some(shards[shard_id]) ELSE None

\* A membership test that answers only for shards that have nodes assigned.
is_key_in_shard_hosted(shard_id, key) ==
    IF shard_id \in DOMAIN shards /\ shards[shard_id].nodes # <<>>
    THEN calculate_shard_id(strategy, shard_count, hash_key(key)) = shard_id
    ELSE FALSE

is_key_in_shard(shard_id, key) ==
    IF shard_id \in DOMAIN shards
    THEN calculate_shard_id(strategy, shard_count, hash_key(key)) = shard_id
    ELSE FALSE

\* A migration that moves the replicas and leaves the leader where it was.
migrate_shard_keeping_leader(shard_id, new_nodes) ==
    /\ shards' = IF shard_id \in DOMAIN shards
                 THEN [shards EXCEPT ![shard_id].nodes = new_nodes,
                                     ![shard_id].status = "Active"]
                 ELSE shards
    /\ UNCHANGED <<strategy, shard_count, replication_factor>>

\* A migration that creates the shard when the id names none.
migrate_shard_inserting(shard_id, new_nodes) ==
    /\ shards' = [s \in DOMAIN shards \cup {shard_id} |->
                    [id |-> s,
                     range_start |-> calculate_range_start(strategy, shard_count, s),
                     range_end |-> calculate_range_end(strategy, shard_count, s),
                     nodes |-> IF s = shard_id THEN new_nodes ELSE shards[s].nodes,
                     leader |-> IF s = shard_id THEN First(new_nodes) ELSE shards[s].leader,
                     status |-> "Active", size_bytes |-> 0, record_count |-> 0]]
    /\ UNCHANGED <<strategy, shard_count, replication_factor>>

\* A migration that returns with the data transfer pending and the shard
\* still Migrating.
migrate_shard_pending(shard_id, new_nodes) ==
    /\ shards' = IF shard_id \in DOMAIN shards
                 THEN [shards EXCEPT ![shard_id].nodes = new_nodes,
                                     ![shard_id].leader = First(new_nodes),
                                     ![shard_id].status = "Migrating"]
                 ELSE shards
    /\ UNCHANGED <<strategy, shard_count, replication_factor>>

\* migrate_shard holds &mut self from the write of Migrating to the write of
\* Active: the call is one step, and it returns Ok for an unknown shard too.
migrate_shard(shard_id, new_nodes) ==
    /\ shards' = IF shard_id \in DOMAIN shards
                 THEN [shards EXCEPT ![shard_id].nodes = new_nodes,
                                     ![shard_id].leader = First(new_nodes),
                                     ![shard_id].status = "Active"]
                 ELSE shards
    /\ UNCHANGED <<strategy, shard_count, replication_factor>>

rebalance_shards(nodes) ==
    /\ nodes # <<>> \/ replication_factor = 0
    /\ shards' = [s \in DOMAIN shards |->
                    [shards[s] EXCEPT !.nodes = RoundRobin(s, nodes),
                                      !.leader = First(RoundRobin(s, nodes))]]
    /\ UNCHANGED <<strategy, shard_count, replication_factor>>

\* Iterator::sum over the shards' values of a u64 field.
RECURSIVE SumOver(_, _)
SumOver(ids, field) ==
    IF ids = {}
    THEN 0
    ELSE LET s == CHOOSE x \in ids : TRUE
         IN  shards[s][field] + SumOver(ids \ {s}, field)

get_statistics ==
    LET total_size == SumOver(DOMAIN shards, "size_bytes")
        total_records == SumOver(DOMAIN shards, "record_count")
        active_shards ==
            Cardinality({s \in DOMAIN shards : shards[s].status = "Active"})
    IN  [total_shards |-> Cardinality(DOMAIN shards),
         active_shards |-> active_shards,
         total_size_bytes |-> total_size,
         total_records |-> total_records,
         average_shard_size |->
             IF DOMAIN shards = {} THEN 0
             ELSE total_size \div Cardinality(DOMAIN shards),
         strategy |-> strategy]

AssignNodes ==
    /\ \E nodes \in NodeLists : assign_nodes_to_shards(nodes)
    /\ UNCHANGED <<replVars, clusterVars, coreVars>>
MigrateShard ==
    /\ \E s \in 0..shard_count, nn \in NodeLists : migrate_shard(s, nn)
    /\ UNCHANGED <<replVars, clusterVars, coreVars>>
RebalanceShards ==
    /\ \E nodes \in NodeLists : rebalance_shards(nodes)
    /\ UNCHANGED <<replVars, clusterVars, coreVars>>

(***************************************************************************)
(* ClusterManager                                                          *)
(***************************************************************************)
NodeRoles == {"Leader", "Follower", "Candidate", "Observer"}
NodeStatuses == {"Healthy", "Unhealthy", "Unknown", "Joining", "Leaving"}

\* Peer {id, role, status}; address and last_seen are never read.  The
\* callers register Followers and Observers, as the example does.
Peers == { [id |-> i, role |-> r, status |-> s] :
             i \in Followers, r \in {"Follower", "Observer"}, s \in NodeStatuses }

\* ClusterConfig, by the fields the manager reads.
Config(n, rf) ==
    [node_id |-> "node-1", replication_factor |-> rf, shard_count |-> n,
     enable_auto_discovery |-> TRUE]
\* The configuration of examples/cluster_streaming.rs.
ExampleConfig == Config(4, 3)

\* ClusterManager::new
ClusterManager_new(cfg) ==
    /\ config = cfg
    /\ peers = <<>>
    /\ cluster_shards = <<>>
    /\ current_role = "Follower"
    /\ leader_id = None
    /\ term = 0

\* ClusterManager::initialize_shards, as the map it leaves in self.shards.
cluster_initialize_shards ==
    LET n == config.shard_count
        Made == [i \in 0..(n - 1) |->
                    [id |-> i,
                     range_start |-> ToHex(i * (U32_MAX \div n), HexWidth(U32Bits)),
                     range_end |-> ToHex((i + 1) * (U32_MAX \div n), HexWidth(U32Bits)),
                     replicas |-> <<>>, leader |-> None, status |-> "Active"]]
    IN  [i \in DOMAIN cluster_shards \cup DOMAIN Made |->
            IF i \in DOMAIN Made THEN Made[i] ELSE cluster_shards[i]]

\* start: initialize_shards, then start_discovery, start_heartbeat and
\* start_consensus, which print and return Ok.
\* A node that, started with no peer registered, takes the lead of term 1.
start_electing ==
    /\ cluster_shards' = cluster_initialize_shards
    /\ current_role' = IF peers = <<>> THEN "Leader" ELSE current_role
    /\ leader_id' = IF peers = <<>> THEN Some(config.node_id) ELSE leader_id
    /\ term' = IF peers = <<>> THEN term + 1 ELSE term
    /\ UNCHANGED <<config, peers>>

start ==
    /\ cluster_shards' = cluster_initialize_shards
    /\ UNCHANGED <<config, peers, current_role, leader_id, term>>

\* A registry that, for an id it already holds, keeps the status it has.
add_peer_keeping_status(peer) ==
    /\ peers' = MapInsert(peers, peer.id,
                          IF peer.id \in DOMAIN peers
                          THEN [peer EXCEPT !.status = peers[peer.id].status]
                          ELSE peer)
    /\ UNCHANGED <<config, cluster_shards, current_role, leader_id, term>>

add_peer(peer) ==
    /\ peers' = MapInsert(peers, peer.id, peer)
    /\ UNCHANGED <<config, cluster_shards, current_role, leader_id, term>>

remove_peer(peer_id) ==
    /\ peers' = [p \in DOMAIN peers \ {peer_id} |-> peers[p]]
    /\ UNCHANGED <<config, cluster_shards, current_role, leader_id, term>>

\* ClusterManager::hash_key: the same DefaultHasher, `finish() as u32`.
cluster_hash_key(key) == hash_key(key) % (2 ^ U32Bits)

\* ClusterManager::get_shard_for_key -> Option<&Shard>
cluster_get_shard_for_key(key) ==
    LET hash == cluster_hash_key(key)
        shard_id == hash % config.shard_count
    IN  IF shard_id \in DOMAIN cluster_shards
        THEN Some(cluster_shards[shard_id])
        ELSE None

get_cluster_status ==
    [node_id |-> config.node_id,
     role |-> current_role,
     leader_id |-> leader_id,
     term |-> term,
     peer_count |-> Cardinality(DOMAIN peers),
     shard_count |-> Cardinality(DOMAIN cluster_shards),
     healthy_peers |-> Cardinality({p \in DOMAIN peers : peers[p].status = "Healthy"})]

Start ==
    /\ start
    /\ UNCHANGED <<replVars, shardVars, coreVars>>
AddPeer ==
    /\ \E peer \in Peers : add_peer(peer)
    /\ UNCHANGED <<replVars, shardVars, coreVars>>
RemovePeer ==
    /\ \E id \in Followers : remove_peer(id)
    /\ UNCHANGED <<replVars, shardVars, coreVars>>

\* The followers of the shard as peers of the registry: the heartbeat's two
\* verdicts on a follower.
AddFollowerPeer ==
    /\ \E id \in Followers, st \in {"Healthy", "Unhealthy"} :
            add_peer([id |-> id, role |-> "Follower", status |-> st])
    /\ UNCHANGED <<replVars, shardVars, coreVars>>

\* The responses of the followers that are heard from: a peer the registry
\* holds as Unhealthy is one that sends nothing.
HeardResponse ==
    /\ \E f \in Followers, s \in BOOLEAN, m \in Indices :
            /\ f \in DOMAIN peers => peers[f].status # "Unhealthy"
            /\ handle_append_entries_response(f, s, m)
    /\ UNCHANGED <<shardVars, clusterVars, coreVars>>

\* migrate_shard on shard 0, the shard whose leader runs the ReplicationManager.
MigrateShardZero ==
    /\ \E nn \in NodeLists : migrate_shard(0, nn)
    /\ UNCHANGED <<replVars, clusterVars, coreVars>>

\* The node lists of a cluster of up to three nodes, each node named once.
ClusterNodeLists ==
    { nodes \in UNION { [1..k -> Followers] : k \in 0..Cardinality(Followers) } :
        \A i, j \in DOMAIN nodes : i # j => nodes[i] # nodes[j] }
AssignClusterNodes ==
    /\ \E nodes \in ClusterNodeLists : assign_nodes_to_shards(nodes)
    /\ UNCHANGED <<replVars, clusterVars, coreVars>>
RebalanceClusterNodes ==
    /\ \E nodes \in ClusterNodeLists : rebalance_shards(nodes)
    /\ UNCHANGED <<replVars, clusterVars, coreVars>>

(***************************************************************************)
(* StorageEngine (write side)                                              *)
(***************************************************************************)
\* The callers' names and keys: any &str, ':' included.
RowTables == {"t", "t:u", "vector:t"}
RowKeys == {"k", "u:k"}
Rows == {"r1", "r2"}
Collections == {"t"}
VectorIds == {"k"}
Vectors == {"v1"}
Graphs == {"g"}
NodeIds == {"n"}
Properties == {"p1"}

vector_key(collection, id) == "vector:" \o collection \o ":" \o id
node_key(graph, node_id) == "graph:" \o graph \o ":node:" \o node_id
edge_key(graph, from, to) == "graph:" \o graph \o ":edge:" \o from \o ":" \o to

bincode_serialize(vector) == <<"bincode", vector>>
bincode_deserialize(bytes) == bytes[2]

\* HashMap::remove
MapRemove(m, k) == [x \in DOMAIN m \ {k} |-> m[x]]

\* An engine whose put takes the row out again when its key is already held.
put_row_toggling(d, table, key, row) ==
    [data |-> IF db_key(table, key) \in DOMAIN d
              THEN MapRemove(d, db_key(table, key))
              ELSE MapInsert(d, db_key(table, key), serialize(row)),
     result |-> Unit]

\* Each operation is given the map and returns the map it leaves and its
\* QubeResult.
put_row(d, table, key, row) ==
    [data |-> MapInsert(d, db_key(table, key), serialize(row)),
     result |-> Unit]

delete_row(d, table, key) ==
    [data |-> MapRemove(d, db_key(table, key)),
     result |-> Unit]

put_vector(d, collection, id, vector) ==
    [data |-> MapInsert(d, vector_key(collection, id), bincode_serialize(vector)),
     result |-> Unit]

\* bincode::deserialize reads the first eight bytes as the length of the
\* array and fails on the text of a JSON map, which holds no such array.
get_vector(collection, id) ==
    IF vector_key(collection, id) \in DOMAIN data
    THEN IF data[vector_key(collection, id)][1] = "bincode"
         THEN Some(bincode_deserialize(data[vector_key(collection, id)]))
         ELSE SerializationError
    ELSE None

put_graph_node(d, graph, node_id, properties) ==
    [data |-> MapInsert(d, node_key(graph, node_id), serialize(properties)),
     result |-> Unit]

put_graph_edge(d, graph, from, to, properties) ==
    [data |-> MapInsert(d, edge_key(graph, from, to), serialize(properties)),
     result |-> Unit]

\* (namespace, collection, key), the namespace being the record kind.
Identity(namespace, collection, key) ==
    [namespace |-> namespace, collection |-> collection, key |-> key]

PutRow ==
    \E t \in RowTables, k \in RowKeys, r \in Rows :
        /\ data' = put_row(data, t, k, r).data
        /\ returned' = put_row(data, t, k, r).result
        /\ written' = MapInsert(written, Identity("row", t, k), r)
        /\ UNCHANGED <<logVars, shardVars, clusterVars, indexVars>>
DeleteRow ==
    \E t \in RowTables, k \in RowKeys :
        /\ data' = delete_row(data, t, k).data
        /\ returned' = delete_row(data, t, k).result
        /\ written' = MapRemove(written, Identity("row", t, k))
        /\ UNCHANGED <<logVars, shardVars, clusterVars, indexVars>>
PutVector ==
    \E c \in Collections, i \in VectorIds, v \in Vectors :
        /\ data' = put_vector(data, c, i, v).data
        /\ returned' = put_vector(data, c, i, v).result
        /\ written' = MapInsert(written, Identity("vector", c, i), v)
        /\ UNCHANGED <<logVars, shardVars, clusterVars, indexVars>>
PutGraphNode ==
    \E g \in Graphs, n \in NodeIds, r \in Properties :
        /\ data' = put_graph_node(data, g, n, r).data
        /\ returned' = put_graph_node(data, g, n, r).result
        /\ UNCHANGED <<written, logVars, shardVars, clusterVars, indexVars>>
PutGraphEdge ==
    \E g \in Graphs, n \in NodeIds, m \in NodeIds, r \in Properties :
        /\ data' = put_graph_edge(data, g, n, m, r).data
        /\ returned' = put_graph_edge(data, g, n, m, r).result
        /\ UNCHANGED <<written, logVars, shardVars, clusterVars, indexVars>>

(***************************************************************************)
(* IndexManager and VectorIndex                                            *)
(***************************************************************************)
MaxDim == 2         \* a VectorIndex is declared with 0..MaxDim dimensions

IndexTypes == {"BTree", "Hash", "Vector", "FullText", "Spatial"}
IndexNames == {"i1", "i2"}
\* Index {name, columns, index_type, unique}
Indexes == { [name |-> n, columns |-> <<"id">>, index_type |-> t, unique |-> u] :
               n \in IndexNames, t \in IndexTypes, u \in BOOLEAN }
\* &[f32] of every length up to one more than a declared dimension
VectorInputs == UNION { [1..n -> {0}] : n \in 0..(MaxDim + 1) }

IndexManager_new == indexes = <<>>

\* A registry whose create_index replaces the definition held under the name.
create_index_replacing(m, index) ==
    [indexes |-> MapInsert(m, index.name, index),
     result |-> IF index.name \in DOMAIN m
                THEN Err("Index", "Index '" \o index.name \o "' already exists")
                ELSE Unit]

create_index(m, index) ==
    IF index.name \in DOMAIN m
    THEN [indexes |-> m,
          result |-> Err("Index", "Index '" \o index.name \o "' already exists")]
    ELSE [indexes |-> MapInsert(m, index.name, index), result |-> Unit]

drop_index(m, name) ==
    IF name \notin DOMAIN m
    THEN [indexes |-> m,
          result |-> Err("Index", "Index '" \o name \o "' not found")]
    ELSE [indexes |-> MapRemove(m, name), result |-> Unit]

\* ok_or_else over HashMap::get
get_index(m, name) ==
    IF name \in DOMAIN m
    THEN Ok("Index", m[name])
    ELSE Err("Index", "Index '" \o name \o "' not found")

\* The values of the map (a Vec in the map's own order: a bag of them).
list_indexes(m) == { m[n] : n \in DOMAIN m }

VectorIndex_new(name, dimensions) ==
    vector_index = [name |-> name, dimensions |-> dimensions]

\* An index that takes any vector long enough.
VectorIndex_insert_prefix(index, id, vector) ==
    IF Len(vector) < index.dimensions
    THEN Err("Index", "Vector dimension mismatch: expected "
                      \o ToString(index.dimensions) \o ", got " \o ToString(Len(vector)))
    ELSE Unit

\* VectorIndex::insert stores nothing: its QubeResult is all it leaves.
VectorIndex_insert(index, id, vector) ==
    IF Len(vector) # index.dimensions
    THEN Err("Index", "Vector dimension mismatch: expected "
                      \o ToString(index.dimensions) \o ", got " \o ToString(Len(vector)))
    ELSE Unit

CreateIndex ==
    \E index \in Indexes :
        /\ indexes' = create_index(indexes, index).indexes
        /\ returned' = create_index(indexes, index).result
        /\ UNCHANGED <<replVars, shardVars, clusterVars, written, vector_index, btree_data>>
DropIndex ==
    \E name \in IndexNames :
        /\ indexes' = drop_index(indexes, name).indexes
        /\ returned' = drop_index(indexes, name).result
        /\ UNCHANGED <<replVars, shardVars, clusterVars, written, vector_index, btree_data>>
VectorInsert ==
    \E id \in VectorIds, vector \in VectorInputs :
        /\ returned' = VectorIndex_insert(vector_index, id, vector)
        /\ UNCHANGED <<replVars, shardVars, clusterVars, written, indexes, vector_index, btree_data>>

(***************************************************************************)
(* BTreeIndex                                                              *)
(***************************************************************************)
MaxOrderedKey == 3  \* one-column keys hold the integers 0..MaxOrderedKey

\* Vec<Value> keys of one Int column, and the row ids stored under them.
OrderedKeys == { <<n>> : n \in 0..MaxOrderedKey }
RowIds == {"a", "b", "c"}

\* BTreeIndex::new; name and columns are never read.
BTreeIndex_new == btree_data = <<>>

BTreeIndex_insert(m, key, row_id) == MapInsert(m, key, row_id)

BTreeIndex_search(m, key) == IF key \in DOMAIN m THEN Some(m[key]) ELSE None

\* The body is vec![] whatever the map holds.
range_search(m, start_key, end_key) == <<>>

BTreeInsert ==
    \E key \in OrderedKeys, row_id \in RowIds :
        /\ btree_data' = BTreeIndex_insert(btree_data, key, row_id)
        /\ UNCHANGED <<replVars, shardVars, clusterVars, written, returned,
                       indexes, vector_index>>

(***************************************************************************)
(* Specifications: one per component, the others left as constructed.      *)
(***************************************************************************)
\* The ShardManager a node of the example cluster builds.
ExampleShardManager ==
    ShardManager_new("Hash", ExampleConfig.shard_count,
                     ExampleConfig.replication_factor)

\* The ReplicationManager of one shard.
\* The StorageEngine and the index structures as constructed.
ExampleCore ==
    /\ StorageEngine_new
    /\ IndexManager_new
    /\ VectorIndex_new("embeddings", MaxDim)
    /\ BTreeIndex_new

Init ==
    /\ ReplicationManager_new
    /\ ExampleCore
    /\ ExampleShardManager
    /\ ClusterManager_new(ExampleConfig)

Next ==
    \/ AppendEntry
    \/ CommitToIndex
    \/ ApplyCommitted
    \/ Replicate
    \/ HandleResponse

Spec == Init /\ [][Next]_vars

\* The ShardManager, for every strategy, shard count and replication factor.
InitShard ==
    /\ ReplicationManager_new
    /\ ExampleCore
    /\ ClusterManager_new(ExampleConfig)
    /\ \E st \in Strategies, n \in 1..MaxShards, rf \in 0..MaxRF :
            ShardManager_new(st, n, rf)

NextShard ==
    \/ AssignNodes
    \/ MigrateShard
    \/ RebalanceShards

SpecShard == InitShard /\ [][NextShard]_vars

\* The ClusterManager, for every shard count of its configuration.
InitCluster ==
    /\ ReplicationManager_new
    /\ ExampleCore
    /\ ExampleShardManager
    /\ \E n \in 1..MaxShards : ClusterManager_new(Config(n, ExampleConfig.replication_factor))

NextCluster ==
    \/ Start
    \/ AddPeer
    \/ RemovePeer

SpecCluster == InitCluster /\ [][NextCluster]_vars

\* The peer registry next to the ReplicationManager whose followers it lists.
NextHealth ==
    \/ AddFollowerPeer
    \/ RemovePeer
    \/ HeardResponse

SpecHealth == Init /\ [][NextHealth]_vars

\* Shard 0 of the ShardManager next to the ReplicationManager of its leader.
NextMigrate ==
    \/ HandleResponse
    \/ MigrateShardZero

SpecMigrate == Init /\ [][NextMigrate]_vars

\* The leader's next_index, match_index and commit_index under the responses
\* of its followers and the commit calls.
NextResponse ==
    \/ HandleResponse
    \/ CommitToIndex

SpecResponse == Init /\ [][NextResponse]_vars

\* Node assignment over the node lists of a cluster, one shard and one
\* replica more than SpecShard draws.
InitAssign ==
    /\ ReplicationManager_new
    /\ ExampleCore
    /\ ClusterManager_new(ExampleConfig)
    /\ \E st \in Strategies, n \in 1..(MaxShards + 1), rf \in 0..(MaxRF + 1) :
            ShardManager_new(st, n, rf)

NextAssign ==
    \/ AssignClusterNodes
    \/ RebalanceClusterNodes

SpecAssign == InitAssign /\ [][NextAssign]_vars

\* The StorageEngine under its five writing operations.
NextStorage ==
    \/ PutRow
    \/ DeleteRow
    \/ PutVector
    \/ PutGraphNode
    \/ PutGraphEdge

SpecStorage == Init /\ [][NextStorage]_vars

\* The IndexManager and a VectorIndex of every declared dimension.
InitIndex ==
    /\ ReplicationManager_new
    /\ ExampleShardManager
    /\ ClusterManager_new(ExampleConfig)
    /\ StorageEngine_new
    /\ IndexManager_new
    /\ \E d \in 0..MaxDim : VectorIndex_new("embeddings", d)
    /\ BTreeIndex_new

NextIndex ==
    \/ CreateIndex
    \/ DropIndex
    \/ VectorInsert

SpecIndex == InitIndex /\ [][NextIndex]_vars

\* One BTreeIndex under its inserts.
NextBTree == BTreeInsert

SpecBTree == Init /\ [][NextBTree]_vars

(***************************************************************************)
(* Vocabulary of the claims                                                *)
(***************************************************************************)
Max(a, b) == IF a >= b THEN a ELSE b

\* The shard's replica set: the leader that owns this manager and its followers.
Leader == "leader"
Replicas == Followers \cup {Leader}

\* The highest index replica r holds, by the leader's books: its own last log
\* index, a follower's acknowledged match index, nothing (0) before any ack.
HeldIndex(r, m) ==
    IF r = Leader THEN get_last_log_index
    ELSE IF r \in DOMAIN m THEN m[r] ELSE 0

\* The largest index held by a strict majority of the replica set.
QuorumIndex(m) ==
    LET OnMajority(n) ==
            2 * Cardinality({r \in Replicas : HeldIndex(r, m) >= n}) > NumReplicas
    IN  CHOOSE n \in 0..(MaxIndex + MaxLog) :
            /\ OnMajority(n)
            /\ \A k \in (n + 1)..(MaxIndex + MaxLog) : ~OnMajority(k)

\* The log numbers its entries 1, 2, 3, ... in log order.
IndexedFromOne == \A p \in 1..Len(log) : log[p].index = p

AllEntries == UNION { LogEntry(n) : n \in 0..MaxLog }

\* C1: commit_index never exceeds the largest index held by a strict majority
\* of the replica set (leader's log and followers' acknowledged match_index).
C1_QuorumInvariant == commit_index <= QuorumIndex(match_index)

\* C2: last_applied <= commit_index <= index of the last appended log entry,
\* in every reachable state.
C2_PointerOrder ==
    /\ last_applied <= commit_index
    /\ commit_index <= get_last_log_index

\* C3: on a log numbered from 1 that holds every committed index, a call of
\* apply_committed_entries applies exactly the entries with index in
\* (last_applied, commit_index], in ascending index order, each once.
C3_AppliesCommittedInOrder ==
    [][ (apply_committed_entries /\ IndexedFromOne /\ commit_index <= Len(log))
        => applied' = applied \o SubSeq(log, last_applied + 1, commit_index) ]_vars

\* C4: the Insert most recently applied from the log is readable from the
\* Storage Engine under its (table, key) with exactly the inserted row.
C4_AppliedInsertReadable ==
    (applied # <<>> /\ applied[Len(applied)].command.op = "Insert")
    => LET c == applied[Len(applied)].command
       IN  get_row(c.table, c.key) = Some(c.row)

\* C5: the indices of the log are successive in log order, whatever
\* append_entry calls built it: each entry's index is its predecessor's plus
\* one, so there is no gap and no duplicate (whether the first is 0 or 1).
C5_IndicesSuccessive ==
    \A p \in 1..(Len(log) - 1) : log[p + 1].index = log[p].index + 1

\* C6: the log is append-only: every step keeps the entries already in the
\* log, in place and unchanged, and never shortens the log.
C6_LogAppendOnly ==
    [][ Len(log') >= Len(log) /\ SubSeq(log', 1, Len(log)) = log ]_vars

\* C6 witness: appends, a commit, an apply that handed an entry to
\* apply_entry and an acknowledgement have all acted, and the log holds every
\* entry that was appended.
C6_Witness ==
    /\ Len(log) = MaxLog
    /\ commit_index = 1
    /\ last_applied = 1
    /\ applied # <<>>
    /\ DOMAIN match_index # {}

\* C7: a successful handle_append_entries_response leaves commit_index at the
\* maximum of its previous value and the largest index held by a strict
\* majority of all replicas, the leader's own last log index included
\* (stated for acknowledgements of indices the leader's log has).
C7_CommitIsMajorityQuantile ==
    [][ \A f \in Followers, m \in Indices :
            (/\ handle_append_entries_response(f, TRUE, m)
             /\ \A g \in DOMAIN match_index' : match_index'[g] <= get_last_log_index)
            => commit_index' = Max(commit_index, QuorumIndex(match_index')) ]_vars

\* C8: in a shard of three replicas (leader, f1, f2) whose commit_index the
\* leader and one follower g hold (the 2-of-3 quorum), an index the other
\* follower f acknowledges is committed by that acknowledgement, and when f
\* had fallen behind commit_index (or had never acknowledged) its
\* acknowledgement leaves match_index[f] at commit_index.
C8_RejoinBackfilled ==
    [][ \A f \in {"f1", "f2"}, m \in Indices :
            (/\ handle_append_entries_response(f, TRUE, m)
             /\ DOMAIN match_index' \subseteq {"f1", "f2"}
             /\ commit_index <= get_last_log_index
             /\ \E g \in DOMAIN match_index \ {f} : match_index[g] = commit_index)
            => /\ commit_index' >= m
               /\ (f \notin DOMAIN match_index \/ match_index[f] < commit_index)
                    => match_index'[f] = commit_index' ]_vars

\* C9: an append whose term is lower than the receiver's term (at least the
\* term of its last log entry) is rejected: log, commit_index and
\* last_applied stay as they were.
C9_StaleTermRejected ==
    [][ \A e \in AllEntries :
            (append_entry(e) /\ e.term < get_last_log_term)
            => UNCHANGED <<log, commit_index, last_applied>> ]_vars

(***************************************************************************)
(* Claims on the ShardManager and the ClusterManager                       *)
(***************************************************************************)
\* The match indices of the followers the registry does not hold as Unhealthy.
HeardFrom(m) ==
    [f \in {g \in DOMAIN m : g \in DOMAIN peers => peers[g].status # "Unhealthy"}
        |-> m[f]]

\* C11: a peer the registry holds as Unhealthy is left out of the majority
\* computation that advances commit_index until it is heard from again: an
\* acknowledgement leaves commit_index at the value update_commit_index
\* computes from the match indices of the other followers alone.
C11_UnhealthyLeftOut ==
    [][ \A f \in Followers, m \in Indices :
            handle_append_entries_response(f, TRUE, m)
            => commit_index' = update_commit_index(HeardFrom(match_index')) ]_vars

\* C12: get_shard_for_key(table, key) returns the same hash and shard_id
\* before and after every assign_nodes_to_shards, migrate_shard and
\* rebalance_shards, for every key, strategy and shard_count.
C12_ShardKeyStable ==
    [][ \A t \in Tables, k \in Keys :
            get_shard_for_key(t, k)' = get_shard_for_key(t, k) ]_vars

\* C12 witness: a manager of several shards after an assignment or a
\* migration gave a shard its nodes, with keys routed to different shards.
C12_Witness ==
    /\ shard_count > 1
    /\ \E s \in DOMAIN shards : shards[s].nodes # <<>>
    /\ \E k1, k2 \in Keys :
          get_shard_for_key("users", k1).shard_id # get_shard_for_key("users", k2).shard_id

\* The shard ids a caller may ask about: the existing ones and two beyond.
ShardIds == 0..(MaxShards + 1)

\* C13: is_key_in_shard(s, key) is true exactly when
\* get_shard_for_key(_, key).shard_id = s, for every key, shard id s and
\* strategy.
C13_InShardAgrees ==
    \A k \in Keys, s \in ShardIds :
        is_key_in_shard(s, k) <=> (get_shard_for_key("users", k).shard_id = s)

\* C13 witness: a manager of MaxShards shards whose shards hold nodes, and a
\* key that is in the last shard and not in shard 0.
C13_Witness ==
    /\ shard_count = MaxShards
    /\ \A s \in DOMAIN shards : shards[s].nodes # <<>>
    /\ \E k \in Keys : is_key_in_shard(shard_count - 1, k) /\ ~is_key_in_shard(0, k)

\* C14: for every key and every shard count, the shard
\* ClusterManager.get_shard_for_key returns has the id
\* ShardManager.get_shard_for_key computes for that key under the same
\* shard count (every strategy of the ShardManager computes the same id).
C14_ClusterDelegates ==
    \A k \in Keys, st \in Strategies :
        cluster_shards # <<>>
        => /\ cluster_get_shard_for_key(k) # None
           /\ cluster_get_shard_for_key(k)[1].id
                = calculate_shard_id(st, config.shard_count, hash_key(k))

\* C15: every key belongs to exactly one shard: its shard_id lies in
\* 0..shard_count-1, names a shard of the map, and is_key_in_shard holds for
\* that shard id and no other.
C15_ExactlyOneShard ==
    \A k \in Keys :
        LET sid == get_shard_for_key("users", k).shard_id
        IN  /\ sid \in 0..(shard_count - 1)
            /\ sid \in DOMAIN shards
            /\ shards[sid].id = sid
            /\ {s \in ShardIds : is_key_in_shard(s, k)} = {sid}

\* C15 witness: a manager of MaxShards shards after a migration left the
\* last shard with a leader, every shard owning some key.
C15_Witness ==
    /\ shard_count = MaxShards
    /\ shards[shard_count - 1].leader # None
    /\ \A s \in DOMAIN shards : \E k \in Keys : is_key_in_shard(s, k)

\* The number a sequence of hex digits writes.
RECURSIVE FromHex(_)
FromHex(d) ==
    IF d = <<>> THEN 0
    ELSE 16 * FromHex(SubSeq(d, 1, Len(d) - 1)) + d[Len(d)]

\* C16: the shards are contiguous buckets of the hash space: under Hash a
\* key's hash lies within [range_start, range_end] of the shard it is routed
\* to (stated for the hashes the buckets cover, those up to the last
\* range_end), and under Range a lower hash is never routed to a higher shard.
C16_ContiguousBuckets ==
    /\ strategy = "Hash"
         => \A k \in Keys :
              LET sk == get_shard_for_key("users", k)
              IN  sk.hash <= FromHex(shards[shard_count - 1].range_end)
                  => /\ FromHex(shards[sk.shard_id].range_start) <= sk.hash
                     /\ sk.hash <= FromHex(shards[sk.shard_id].range_end)
    /\ strategy = "Range"
         => \A k1, k2 \in Keys :
              hash_key(k1) <= hash_key(k2)
              => get_shard_for_key("users", k1).shard_id
                   <= get_shard_for_key("users", k2).shard_id

\* C17: under Consistent, going from shard_count n to n + 1 relocates no key
\* among the old shards: a key keeps its shard id or moves to the new shard,
\* whose id is n.
C17_ConsistentKeepsOldShards ==
    strategy = "Consistent"
    => \A k \in Keys :
         LET old == calculate_shard_id(strategy, shard_count, hash_key(k))
             new == calculate_shard_id(strategy, shard_count + 1, hash_key(k))
         IN  new = old \/ new = shard_count

\* A node of the new replica set is caught up when the outgoing leader has
\* its acknowledgement of an index at or above commit_index.
CaughtUp(nn) ==
    \A i \in DOMAIN nn :
        nn[i] \in DOMAIN match_index /\ match_index[nn[i]] >= commit_index

\* C18: migrate_shard leaves the shard Migrating, not Active, for as long as
\* some node of the new replica set has not caught up to the outgoing
\* leader's commit index (stated for a leader that has committed an entry).
C18_MigratingUntilCaughtUp ==
    [][ \A nn \in NodeLists :
            (migrate_shard(0, nn) /\ commit_index > 0 /\ ~CaughtUp(nn))
            => shards'[0].status = "Migrating" ]_vars

\* C19: after assign_nodes_to_shards(nodes), for any node list, every shard's
\* replica list holds exactly replication_factor node ids, all from nodes,
\* pairwise distinct, chosen round-robin with the shard id as the offset.
C19_ReplicasDistinct ==
    [][ \A nodes \in ClusterNodeLists :
            assign_nodes_to_shards(nodes)
            => \A s \in DOMAIN shards' :
                 LET r == shards'[s].nodes
                 IN  /\ Len(r) = replication_factor
                     /\ \A i \in DOMAIN r :
                           /\ \E j \in DOMAIN nodes : r[i] = nodes[j]
                           /\ r[i] = nodes[((s + (i - 1)) % Len(nodes)) + 1]
                     /\ \A i, j \in DOMAIN r : i # j => r[i] # r[j] ]_vars

\* The number of ordered lists of rf of n nodes, each node at most once.
RECURSIVE Arrangements(_, _)
Arrangements(n, rf) == IF rf = 0 THEN 1 ELSE n * Arrangements(n - 1, rf - 1)

Range(v) == { v[i] : i \in DOMAIN v }

\* C20: after assign_nodes_to_shards, two different shards that share the
\* same set of replicas are not assigned identically: their ordered replica
\* lists differ, and so do their preferred leaders (stated where the nodes
\* suffice for the replication factor and allow as many different ordered
\* lists as there are shards, as with 4 shards on 3 nodes and factor 3).
C20_NoIdenticalAssignment ==
    [][ \A nodes \in ClusterNodeLists :
            (/\ assign_nodes_to_shards(nodes)
             /\ replication_factor >= 1
             /\ replication_factor <= Len(nodes)
             /\ shard_count <= Arrangements(Len(nodes), replication_factor))
            => \A s1, s2 \in DOMAIN shards' :
                 (s1 # s2 /\ Range(shards'[s1].nodes) = Range(shards'[s2].nodes))
                 => /\ shards'[s1].nodes # shards'[s2].nodes
                    /\ shards'[s1].leader # shards'[s2].leader ]_vars

\* C21: in every state reachable by assign_nodes_to_shards, migrate_shard and
\* rebalance_shards each shard's leader is the first entry of its replica
\* list, is unset exactly when the list is empty, and is a member of the
\* shard's replica set.
C21_LeaderIsFirstReplica ==
    \A s \in DOMAIN shards :
        /\ shards[s].leader = First(shards[s].nodes)
        /\ (shards[s].leader = None) <=> (shards[s].nodes = <<>>)
        /\ shards[s].leader # None => shards[s].leader[1] \in Range(shards[s].nodes)

\* C21 witness: an operation gave one shard two different replicas, the
\* first of them its leader, while another shard has no replica.
C21_Witness ==
    \E s1, s2 \in DOMAIN shards :
        /\ Len(shards[s1].nodes) = 2
        /\ shards[s1].nodes[1] # shards[s1].nodes[2]
        /\ shards[s1].leader = Some(shards[s1].nodes[1])
        /\ shards[s2].nodes = <<>>

\* C22: the set of shards is fixed at construction: every step leaves the
\* shard ids at exactly 0..shard_count-1 and every shard's id, range_start
\* and range_end as they were; migrate_shard(s, new_nodes) changes only the
\* nodes, leader and status of shard s, leaves every other shard unchanged,
\* and changes nothing when s names no shard.
C22_ShardSetFixed ==
    [][ /\ DOMAIN shards' = 0..(shard_count' - 1)
        /\ DOMAIN shards' = DOMAIN shards
        /\ \A s \in DOMAIN shards :
              /\ shards'[s].id = shards[s].id
              /\ shards'[s].range_start = shards[s].range_start
              /\ shards'[s].range_end = shards[s].range_end
        /\ \A s \in ShardIds, nn \in NodeLists :
              migrate_shard(s, nn)
              => /\ \A t \in DOMAIN shards \ {s} : shards'[t] = shards[t]
                 /\ s \in DOMAIN shards
                      => shards'[s] = [shards[s] EXCEPT !.nodes = shards'[s].nodes,
                                                        !.leader = shards'[s].leader,
                                                        !.status = shards'[s].status]
                 /\ s \notin DOMAIN shards => shards' = shards ]_vars

\* C22 witness: a manager of MaxShards shards whose first two shards hold
\* different replica lists under the same leader, which only a migration of
\* one of them leaves.
C22_Witness ==
    /\ shard_count = MaxShards
    /\ shards[0].nodes # <<>>
    /\ shards[1].nodes # <<>>
    /\ shards[0].nodes # shards[1].nodes
    /\ shards[0].leader = shards[1].leader

\* C23: migrations of the same shard are mutually exclusive: no
\* migrate_shard or rebalance_shards that changes a shard starts on a shard
\* whose status is Migrating, and each leaves the shard with the replica list
\* and leader of that one request, never a mixture.
C23_MigrationsExclusive ==
    [][ /\ \A s \in DOMAIN shards :
              shards'[s] # shards[s]
              => \A nn \in NodeLists :
                    migrate_shard(s, nn)
                    => /\ shards[s].status # "Migrating"
                       /\ shards'[s].nodes = nn
                       /\ shards'[s].leader = First(nn)
        /\ \A nodes \in NodeLists :
              \* (a rebalance over nodes is first told by what shard 0 receives)
              ( /\ nodes # <<>>
                /\ shards'[0].nodes = RoundRobin(0, nodes)
                /\ rebalance_shards(nodes) )
              => \A s \in DOMAIN shards :
                   /\ shards[s].status # "Migrating"
                   /\ shards'[s].nodes = RoundRobin(s, nodes)
                   /\ shards'[s].leader = First(RoundRobin(s, nodes)) ]_vars

\* C23 witness: under replication factor 2 one shard holds a single replica,
\* as only a migration leaves it, next to a shard that holds two under
\* another leader.
C23_Witness ==
    \E s \in DOMAIN shards :
        /\ replication_factor = 2
        /\ Len(shards[s].nodes) = 1
        /\ \E t \in DOMAIN shards \ {s} :
              /\ Len(shards[t].nodes) = 2
              /\ shards[t].leader # shards[s].leader

\* 1 for a true condition, 0 for a false one.
Count(b) == IF b THEN 1 ELSE 0

\* C24: get_cluster_status counts the peers added and not since removed and,
\* of them, the Healthy ones: add_peer stores the peer under its id, counting
\* it once more only when the id was absent; remove_peer takes the id out,
\* changing nothing when it is absent; and healthy_peers <= peer_count.
C24_StatusCountsPeers ==
    [][ /\ \A p \in Peers :
              add_peer(p)
              => /\ peers'[p.id] = p
                 /\ get_cluster_status'.peer_count
                      = get_cluster_status.peer_count + Count(p.id \notin DOMAIN peers)
                 /\ get_cluster_status'.healthy_peers
                      = get_cluster_status.healthy_peers
                        - Count(p.id \in DOMAIN peers /\ peers[p.id].status = "Healthy")
                        + Count(p.status = "Healthy")
        /\ \A id \in Followers :
              remove_peer(id)
              => /\ id \notin DOMAIN peers'
                 /\ id \notin DOMAIN peers => peers' = peers
                 /\ get_cluster_status'.peer_count
                      = get_cluster_status.peer_count - Count(id \in DOMAIN peers)
                 /\ get_cluster_status'.healthy_peers
                      = get_cluster_status.healthy_peers
                        - Count(id \in DOMAIN peers /\ peers[id].status = "Healthy")
        /\ get_cluster_status.peer_count = Cardinality(DOMAIN peers)
        /\ get_cluster_status'.healthy_peers <= get_cluster_status'.peer_count ]_vars

\* C24 witness: the registry holds two peers, one of them Healthy, and a
\* third id is absent.
C24_Witness ==
    /\ get_cluster_status.peer_count = 2
    /\ get_cluster_status.healthy_peers = 1
    /\ \E id \in Followers : id \notin DOMAIN peers

\* The identities that have a get: rows and vectors.
RowIdentities == { Identity("row", t, k) : t \in RowTables, k \in RowKeys }
VectorIdentities == { Identity("vector", c, i) : c \in Collections, i \in VectorIds }
Identities == RowIdentities \cup VectorIdentities

get(i) ==
    IF i.namespace = "row"
    THEN get_row(i.collection, i.key)
    ELSE get_vector(i.collection, i.key)

\* C25: a get of an identity returns the payload last put under it (and not
\* deleted since), for rows and vectors, whatever was put or deleted under
\* other identities in between.
C25_ReadYourWrites ==
    \A i \in DOMAIN written : get(i) = Some(written[i])

\* C26: a put or a delete on one identity leaves what get returns for every
\* other identity as it was, whether the two differ in record kind, in
\* collection or in key, and whatever characters the names and keys contain.
C26_IsolatedByIdentity ==
    [][ /\ \A t \in RowTables, k \in RowKeys, r \in Rows :
              data' = put_row(data, t, k, r).data
              => \A i \in Identities \ {Identity("row", t, k)} : get(i)' = get(i)
        /\ \A t \in RowTables, k \in RowKeys :
              data' = delete_row(data, t, k).data
              => \A i \in Identities \ {Identity("row", t, k)} : get(i)' = get(i)
        /\ \A c \in Collections, id \in VectorIds, v \in Vectors :
              data' = put_vector(data, c, id, v).data
              => \A i \in Identities \ {Identity("vector", c, id)} : get(i)' = get(i)
        /\ \A g \in Graphs, n \in NodeIds, r \in Properties :
              data' = put_graph_node(data, g, n, r).data
              => \A i \in Identities : get(i)' = get(i)
        /\ \A g \in Graphs, n \in NodeIds, m \in NodeIds, r \in Properties :
              data' = put_graph_edge(data, g, n, m, r).data
              => \A i \in Identities : get(i)' = get(i) ]_vars

\* C27: in every reachable store, the same put done twice leaves what doing
\* it once leaves, for rows, vectors, graph nodes and graph edges, and so
\* does the same delete.
C27_ReplayIdempotent ==
    /\ \A t \in RowTables, k \in RowKeys, r \in Rows :
          put_row(put_row(data, t, k, r).data, t, k, r).data
            = put_row(data, t, k, r).data
    /\ \A t \in RowTables, k \in RowKeys :
          delete_row(delete_row(data, t, k).data, t, k).data
            = delete_row(data, t, k).data
    /\ \A c \in Collections, id \in VectorIds, v \in Vectors :
          put_vector(put_vector(data, c, id, v).data, c, id, v).data
            = put_vector(data, c, id, v).data
    /\ \A g \in Graphs, n \in NodeIds, r \in Properties :
          put_graph_node(put_graph_node(data, g, n, r).data, g, n, r).data
            = put_graph_node(data, g, n, r).data
    /\ \A g \in Graphs, n \in NodeIds, m \in NodeIds, r \in Properties :
          put_graph_edge(put_graph_edge(data, g, n, m, r).data, g, n, m, r).data
            = put_graph_edge(data, g, n, m, r).data

\* A store that holds a row a replayed put would overwrite with another
\* payload's bytes in place, a vector, and an identity a replayed delete finds
\* absent.
C27_Witness ==
    /\ \E i \in RowIdentities : get(i) = Some("r2") /\ i \in DOMAIN written
    /\ \E i \in VectorIdentities : get(i) = Some("v1")
    /\ \E i \in RowIdentities : get(i) = None
    /\ returned = Unit

\* C28: a delete reports true exactly when a record was held under the
\* identity; after it, get of the identity returns none; and a delete of an
\* absent identity leaves the store as it was.
C28_DeleteReportsExisted ==
    [][ \A t \in RowTables, k \in RowKeys :
            ( /\ data' = delete_row(data, t, k).data
              /\ returned' = delete_row(data, t, k).result
              /\ written' = MapRemove(written, Identity("row", t, k)) )
            => /\ returned'.tag = "Ok"
               /\ returned'.type = "bool"
               /\ returned'.value = (get_row(t, k) # None)
               /\ get_row(t, k)' = None
               /\ (get_row(t, k) = None => data' = data) ]_vars

\* C29: a create_index under a registered name fails and leaves the
\* registered definition as it was; a drop_index of an unregistered name
\* fails and leaves the registry as it was; otherwise create_index registers
\* the index and drop_index removes that one alone; so no two registered
\* indexes share a name.
C29_IndexNamesUnique ==
    [][ /\ \A index \in Indexes :
              ( /\ indexes' = create_index(indexes, index).indexes
                /\ returned' = create_index(indexes, index).result )
              => IF get_index(indexes, index.name).tag = "Ok"
                 THEN /\ returned'.tag = "Err"
                      /\ returned'.type = "Index"
                      /\ list_indexes(indexes') = list_indexes(indexes)
                      /\ get_index(indexes', index.name) = get_index(indexes, index.name)
                 ELSE /\ returned' = Unit
                      /\ list_indexes(indexes') = list_indexes(indexes) \cup {index}
                      /\ get_index(indexes', index.name) = Ok("Index", index)
        /\ \A name \in IndexNames :
              ( /\ indexes' = drop_index(indexes, name).indexes
                /\ returned' = drop_index(indexes, name).result )
              => IF get_index(indexes, name).tag = "Err"
                 THEN /\ returned'.tag = "Err"
                      /\ returned'.type = "Index"
                      /\ list_indexes(indexes') = list_indexes(indexes)
                 ELSE /\ returned' = Unit
                      /\ list_indexes(indexes')
                           = list_indexes(indexes) \ {get_index(indexes, name).value}
                      /\ get_index(indexes', name).tag = "Err"
        /\ \A a, b \in list_indexes(indexes') : a.name = b.name => a = b
        /\ Cardinality(list_indexes(indexes')) = Cardinality(DOMAIN indexes') ]_vars

\* Both names are registered, with definitions of different types, and the
\* last create_index was refused because its name was taken.
C29_Witness ==
    /\ DOMAIN indexes = IndexNames
    /\ indexes["i1"].index_type # indexes["i2"].index_type
    /\ returned = Err("Index", "Index 'i1' already exists")

\* C30: an insert of a vector whose length is not the dimension the index
\* was created with fails with the dimension-mismatch error naming both, and
\* leaves the index as it was; an insert of a vector of that length returns Ok.
C30_DimensionChecked ==
    [][ \A id \in VectorIds, vector \in VectorInputs :
            ( /\ returned' = VectorIndex_insert(vector_index, id, vector)
              /\ indexes' = indexes )
            => /\ vector_index' = vector_index
               /\ Len(vector) # vector_index.dimensions
                    => returned' = Err("Index",
                                       "Vector dimension mismatch: expected "
                                       \o ToString(vector_index.dimensions)
                                       \o ", got " \o ToString(Len(vector)))
               /\ Len(vector) = vector_index.dimensions => returned' = Unit ]_vars

\* An index of two dimensions has just refused a vector of three.
C30_Witness ==
    /\ vector_index.dimensions = 2
    /\ returned = Err("Index", "Vector dimension mismatch: expected 2, got 3")

\* The row ids held under the keys lo, lo + 1, ..., hi - 1 of a
\* one-column index, in that order.
RECURSIVE InRange(_, _, _)
InRange(m, lo, hi) ==
    IF lo >= hi
    THEN <<>>
    ELSE (IF <<lo>> \in DOMAIN m THEN <<m[<<lo>>]>> ELSE <<>>)
         \o InRange(m, lo + 1, hi)

\* C31: range_search(start, end) returns the row ids inserted under the keys
\* k with start <= k < end, in ascending order of k.
C31_RangeSearchHalfOpen ==
    \A lo, hi \in 0..(MaxOrderedKey + 1) :
        range_search(btree_data, <<lo>>, <<hi>>) = InRange(btree_data, lo, hi)

\* The index replicate_to_follower sends from: next_index.get(f), 0 if unset.
NextIdx(ni, f) == IF f \in DOMAIN ni THEN ni[f] ELSE 0

\* The followers other than f hold in m2 what they hold in m1.
OthersKept(m1, m2, f) ==
    \A g \in Followers \ {f} :
        /\ (g \in DOMAIN m2) <=> (g \in DOMAIN m1)
        /\ g \in DOMAIN m1 => m2[g] = m1[g]

\* C32: a successful response of follower f with match index m leaves
\* match_index[f] = m and next_index[f] = m + 1, and the entries of every
\* other follower in both maps as they were.
C32_SuccessSetsIndices ==
    [][ \A f \in Followers, m \in Indices :
            handle_append_entries_response(f, TRUE, m)
            => /\ f \in DOMAIN match_index' /\ match_index'[f] = m
               /\ f \in DOMAIN next_index' /\ next_index'[f] = m + 1
               /\ OthersKept(match_index, match_index', f)
               /\ OthersKept(next_index, next_index', f) ]_vars

\* Two followers have acknowledged different indices.
C32_Witness ==
    \E f, g \in DOMAIN match_index :
        /\ match_index[f] = 0 /\ next_index[f] = 1
        /\ match_index[g] = MaxIndex /\ next_index[g] = MaxIndex + 1
        /\ MaxIndex > 0

\* C33: a failed response of follower f lowers the index the leader sends f
\* from by one, and leaves it at zero when it is zero (as it is for a follower
\* that has acknowledged nothing); the other followers' next_index, the
\* match_index, commit_index, last_applied and the log stay as they were.
C33_FailureBacksOff ==
    [][ \A f \in Followers, m \in Indices :
            handle_append_entries_response(f, FALSE, m)
            => /\ NextIdx(next_index', f) = Max(NextIdx(next_index, f) - 1, 0)
               /\ OthersKept(next_index, next_index', f)
               /\ UNCHANGED <<match_index, commit_index, last_applied, log>> ]_vars

\* One follower was backed off to the index it had acknowledged, beside one
\* still ahead of its acknowledged index and one that has acknowledged nothing.
C33_Witness ==
    \E f, g \in DOMAIN next_index :
        /\ next_index[f] = match_index[f]
        /\ next_index[g] = match_index[g] + 1
        /\ \E h \in Followers : h \notin DOMAIN next_index

\* C34: no call lowers commit_index or last_applied, whatever index
\* commit_to_index is given and whatever match index a response reports.
C34_CommitNeverDecreases ==
    [][ commit_index' >= commit_index /\ last_applied' >= last_applied ]_vars

\* The commit index stands above the median of the acknowledged indices,
\* and everything up to it has been applied.
C34_Witness ==
    /\ commit_index = MaxIndex
    /\ MaxIndex > 0
    /\ last_applied = commit_index
    /\ DOMAIN match_index = Followers
    /\ \A f \in Followers : match_index[f] = 0

\* C35: the leader's next index for a follower that has acknowledged is
\* above that follower's match index.
C35_NextAboveMatch ==
    \A f \in DOMAIN match_index : next_index[f] > match_index[f]

\* C36: every shard is Active in every state between operations, and
\* get_statistics reports as many active shards as shards, the count the
\* ShardManager was constructed with.
C36_AllShardsActive ==
    /\ \A s \in DOMAIN shards : shards[s].status = "Active"
    /\ get_statistics.active_shards = get_statistics.total_shards
    /\ get_statistics.total_shards = shard_count

\* Every shard has been given replicas, two of them different ones, as only
\* a migration or a rebalance leaves them.
C36_Witness ==
    /\ shard_count = MaxShards
    /\ \A s \in DOMAIN shards : shards[s].nodes # <<>>
    /\ \E s, t \in DOMAIN shards : shards[s].leader # shards[t].leader
    /\ get_statistics.active_shards = MaxShards

\* C37: no operation of the ClusterManager changes the node's role, term or
\* believed leader, so get_cluster_status reports role Follower, term 0 and
\* no leader; and a registered peer holds the status of the add_peer call
\* that registered it last.
C37_RoleTermLeaderFixed ==
    [][ /\ UNCHANGED <<current_role, term, leader_id>>
        /\ get_cluster_status.role = "Follower"
        /\ get_cluster_status.term = 0
        /\ get_cluster_status.leader_id = None
        /\ get_cluster_status'.role = "Follower"
        /\ get_cluster_status'.term = 0
        /\ get_cluster_status'.leader_id = None
        /\ \A id \in DOMAIN peers' :
              \/ id \in DOMAIN peers /\ peers'[id] = peers[id]
              \/ \E p \in Peers : add_peer(p) /\ p.id = id
                                   /\ peers'[id].status = p.status ]_vars

\* The node has been started and holds peers of several statuses.
C37_Witness ==
    /\ cluster_shards # <<>>
    /\ \E a, b \in DOMAIN peers :
          peers[a].status = "Unhealthy" /\ peers[b].status = "Leaving"
    /\ get_cluster_status.role = "Follower"

====
